---- MODULE Spec2Model ----
(***************************************************************************)
(* Animation-state reconciliation and asset-variant lifecycle of the       *)
(* R3F local GLTF viewer (src/app/routes/home.tsx).                        *)
(*                                                                         *)
(* Two React roots cooperate:                                              *)
(*  - the DOM root renders R3FLocalGLTFViewer, which owns the four         *)
(*    useState hooks.  The variables named after the hooks hold the values *)
(*    of the last parent render, which are the values the handlers'        *)
(*    closures read.  The handlers run in discrete events, so the updates  *)
(*    they enqueue are rendered in the same step, after any update that    *)
(*    was queued before them;                                              *)
(*  - <Canvas> hands its children to the react-three-fiber root, which     *)
(*    renders <Model key={activeUrl}> asynchronously.  Model's useEffect   *)
(*    callbacks are passive effects: they run some time after the commit   *)
(*    that scheduled them and always before the next render of that root,  *)
(*    so a user event can be handled between a commit and its effects.     *)
(*    The setState calls the effects make on the parent's hooks wait in    *)
(*    updateQueue for a later render of the DOM root.                      *)
(*                                                                         *)
(* Object identity decides whether an effect runs again.  Every parent     *)
(* render creates the inline onAnimationsDiscovered anew and every         *)
(* setEnabledAnimations call in the file passes a new Set, so a flag per   *)
(* prop records whether it differs from the value in Model's last commit.  *)
(***************************************************************************)
EXTENDS Naturals, Sequences, FiniteSets

(* ---------------- bounds ---------------- *)

\* Largest number of animation clips an asset file may contain.
MaxClips == 2

(* ---------------- constants of the program ---------------- *)

\* Clip names that asset files may carry, in file order.
ClipNames == <<"Idle", "Walk", "Run", "Jump">>

MODEL_VARIANTS ==
    [metallic    |-> "/models/MrDude_metallic.glb",
     plastic     |-> "/models/MrDude_plastic.glb",
     trasparente |-> "/models/MrDude_trasparente.glb",
     white       |-> "/models/MrDude_white.glb"]

ModelVariant == DOMAIN MODEL_VARIANTS

Urls == {MODEL_VARIANTS[v] : v \in ModelVariant}

None == "none"

Range(s) == {s[i] : i \in 1..Len(s)}

\* The clip lists an asset file can contain.
ClipLists == {SubSeq(ClipNames, 1, k) : k \in 0..MaxClips}

\* The clips in each asset file: two variants of the same rigged model, one
\* with a clip less, one without animations.
AssetClips ==
    [u \in Urls |->
        CASE u = MODEL_VARIANTS["metallic"]    -> SubSeq(ClipNames, 1, MaxClips)
          [] u = MODEL_VARIANTS["plastic"]     -> SubSeq(ClipNames, 1, MaxClips)
          [] u = MODEL_VARIANTS["trasparente"] -> SubSeq(ClipNames, 1, MaxClips - 1)
          [] u = MODEL_VARIANTS["white"]       -> <<>>]

\* Names a user may try to toggle.
AllNames == Range(SubSeq(ClipNames, 1, MaxClips))

UserSteps == {"selectVariant", "toggleAnimation", "toggleBackground"}

VARIABLES
    useHdrBackground,     \* useState<boolean>, value of the last parent render
    selectedVariant,      \* useState<ModelVariant>
    enabledAnimations,    \* useState<Set<string>>
    availableAnimations,  \* useState<string[]>
    updateQueue,          \* onAnimationsDiscovered calls not yet rendered by the parent
    gltfCache,            \* useGLTF cache: url -> "absent" | "loading" | "loaded"
    r3fPending,           \* the fiber root has an element (or a retry) still to render
    cbChanged,            \* onAnimationsDiscovered prop differs from Model's committed dep
    enabledChanged,       \* enabledAnimations prop object differs from Model's committed dep
    mounted,              \* key (url) of the committed Model, or None
    modelEnabled,         \* enabledAnimations prop seen by Model's last render
    suspendedOn,          \* url whose load the last render attempt suspended on, or None
    discoveryPending,     \* Model's first useEffect is scheduled
    playbackPending,      \* Model's second useEffect is scheduled
    playing,              \* clips of the mounted Model whose action is running
    lastEvent,            \* history: the last user event and, in Ready, the enabled set it found
    fromEffect            \* history: the last step was the parent's render of a report

vars == <<useHdrBackground, selectedVariant, enabledAnimations, availableAnimations,
          updateQueue, gltfCache, r3fPending, cbChanged, enabledChanged, mounted,
          modelEnabled, suspendedOn, discoveryPending, playbackPending, playing,
          lastEvent, fromEffect>>

activeUrl == MODEL_VARIANTS[selectedVariant]

IsLoaded(url) == gltfCache[url] = "loaded"

\* names returned by useAnimations for the asset at url
NamesOf(url) == IF url # None /\ IsLoaded(url) THEN AssetClips[url] ELSE <<>>

TypeOK ==
    /\ useHdrBackground \in BOOLEAN
    /\ selectedVariant \in ModelVariant
    /\ enabledAnimations \subseteq AllNames
    /\ availableAnimations \in ClipLists
    /\ updateQueue \in Seq(ClipLists) /\ Len(updateQueue) <= 2
    /\ gltfCache \in [Urls -> {"absent", "loading", "loaded"}]
    /\ r3fPending \in BOOLEAN /\ cbChanged \in BOOLEAN /\ enabledChanged \in BOOLEAN
    /\ mounted \in Urls \cup {None}
    /\ modelEnabled \subseteq AllNames
    /\ suspendedOn \in Urls \cup {None}
    /\ discoveryPending \in BOOLEAN /\ playbackPending \in BOOLEAN
    /\ playing \subseteq AllNames
    /\ lastEvent \in [op : UserSteps \cup {"none"}, name : AllNames \cup ModelVariant \cup {None},
                     enabled : SUBSET AllNames, ready : BOOLEAN]
    /\ fromEffect \in BOOLEAN

(* ---------------- the parent component ---------------- *)

\* useGLTF.preload(url): starts the load unless the cache already has the url.
Preload(cache, url) ==
    IF cache[url] = "absent" THEN [cache EXCEPT ![url] = "loading"] ELSE cache

\* State after the first render of R3FLocalGLTFViewer and its preload effect.
Init ==
    /\ useHdrBackground = TRUE
    /\ selectedVariant = "metallic"
    /\ enabledAnimations = {}
    /\ availableAnimations = <<>>
    /\ updateQueue = <<>>
    /\ gltfCache = Preload([u \in Urls |-> "absent"], MODEL_VARIANTS["metallic"])
    /\ r3fPending = TRUE
    /\ cbChanged = TRUE
    /\ enabledChanged = TRUE
    /\ mounted = None
    /\ modelEnabled = {}
    /\ suspendedOn = None
    /\ discoveryPending = FALSE
    /\ playbackPending = FALSE
    /\ playing = {}
    /\ lastEvent = [op |-> "none", name |-> None, enabled |-> {}, ready |-> FALSE]
    /\ fromEffect = FALSE

\* onAnimationsDiscovered adding the names to the enabled set already there.
OnAnimationsDiscoveredMerging(names, prev) ==
    [available |-> names,
     enabled   |-> IF Len(names) > 0 THEN prev.enabled \cup Range(names) ELSE prev.enabled]

\* The inline onAnimationsDiscovered prop: the hook values it leaves behind.
OnAnimationsDiscovered(names, prev) ==
    [available |-> names,
     enabled   |-> IF Len(names) > 0 THEN Range(names) ELSE prev.enabled]

\* Hook values after the queued onAnimationsDiscovered calls are applied in order.
RECURSIVE ApplyQueue(_, _)
ApplyQueue(queue, hooks) ==
    IF queue = <<>> THEN hooks
    ELSE ApplyQueue(Tail(queue), OnAnimationsDiscovered(Head(queue), hooks))

Hooks == [available |-> availableAnimations, enabled |-> enabledAnimations]

\* The state machine's Ready: the selected asset is mounted, its names have
\* been delivered and rendered, and no further report is on its way.
Ready ==
    /\ mounted = activeUrl
    /\ Len(NamesOf(mounted)) > 0
    /\ availableAnimations = NamesOf(mounted)
    /\ ~discoveryPending
    /\ updateQueue = <<>>

\* History: the enabled set a user event found, kept for events in Ready.
EnabledIfReady == IF Ready THEN enabledAnimations ELSE {}

\* What the parent's render leaves for the fiber root: a new element whose
\* onAnimationsDiscovered prop is a newly created function.
RenderParent ==
    /\ updateQueue' = <<>>
    /\ cbChanged' = TRUE
    /\ r3fPending' = TRUE

\* A <select> handler that forgets setEnabledAnimations(new Set()).
SelectHandlerKeepingEnabled(v) ==
    [variant |-> v, enabled |-> enabledAnimations, available |-> <<>>]

\* The hook values the <select> onChange handler sets.
SelectHandler(v) == [variant |-> v, enabled |-> {}, available |-> <<>>]

\* <select> onChange.  The change event fires only for a value other than the shown one.
SelectVariant(v) ==
    /\ v # selectedVariant
    /\ selectedVariant' = SelectHandler(v).variant
    /\ enabledAnimations' = SelectHandler(v).enabled
    /\ availableAnimations' = SelectHandler(v).available
    /\ enabledChanged' = TRUE
    /\ gltfCache' = Preload(gltfCache, MODEL_VARIANTS[v])
    /\ RenderParent
    /\ lastEvent' = [op |-> "selectVariant", name |-> v, enabled |-> EnabledIfReady,
                     ready |-> Ready]
    /\ fromEffect' = FALSE
    /\ UNCHANGED <<useHdrBackground, mounted, modelEnabled, suspendedOn,
                   discoveryPending, playbackPending, playing>>

\* Background button onClick.
ToggleBackground ==
    /\ useHdrBackground' = ~useHdrBackground
    /\ availableAnimations' = ApplyQueue(updateQueue, Hooks).available
    /\ enabledAnimations' = ApplyQueue(updateQueue, Hooks).enabled
    /\ enabledChanged' = (enabledChanged \/ updateQueue # <<>>)
    /\ RenderParent
    /\ lastEvent' = [op |-> "toggleBackground", name |-> None,
                     enabled |-> EnabledIfReady, ready |-> Ready]
    /\ fromEffect' = FALSE
    /\ UNCHANGED <<selectedVariant, gltfCache, mounted, modelEnabled, suspendedOn,
                   discoveryPending, playbackPending, playing>>

\* Checkboxes rendered for every known name instead of the available ones.
CheckboxNamesUnfiltered == AllNames

\* Names for which the last parent render produced a checkbox.
CheckboxNames == Range(availableAnimations)

\* A checkbox handler that starts from an empty set when it adds.
ToggledSetFromEmpty(set, name, checked) ==
    IF checked THEN {name} ELSE set \ {name}

\* The set the checkbox handler builds from the rendered enabledAnimations.
ToggledSet(set, name, checked) ==
    IF checked THEN set \cup {name} ELSE set \ {name}

\* A user toggle of `name`.  A checkbox exists only for the rendered names, and a
\* click on a controlled checkbox reports the negation of what it shows.
ToggleAnimation(name, checked) ==
    /\ lastEvent' = [op |-> "toggleAnimation", name |-> name,
                     enabled |-> EnabledIfReady, ready |-> Ready]
    /\ IF name \in CheckboxNames
       THEN /\ checked = (name \notin enabledAnimations)
            /\ enabledAnimations' = ToggledSet(enabledAnimations, name, checked)
            /\ availableAnimations' = ApplyQueue(updateQueue, Hooks).available
            /\ enabledChanged' = TRUE
            /\ RenderParent
       ELSE UNCHANGED <<enabledAnimations, availableAnimations, enabledChanged,
                        updateQueue, cbChanged, r3fPending>>
    /\ fromEffect' = FALSE
    /\ UNCHANGED <<useHdrBackground, selectedVariant, gltfCache, mounted, modelEnabled,
                   suspendedOn, discoveryPending, playbackPending, playing>>

\* Render of the parent caused by setState calls made from Model's effect.
ParentRender ==
    /\ updateQueue # <<>>
    /\ availableAnimations' = ApplyQueue(updateQueue, Hooks).available
    /\ enabledAnimations' = ApplyQueue(updateQueue, Hooks).enabled
    /\ enabledChanged' = TRUE
    /\ RenderParent
    /\ fromEffect' = TRUE
    /\ UNCHANGED <<useHdrBackground, selectedVariant, gltfCache, mounted, modelEnabled,
                   suspendedOn, discoveryPending, playbackPending, playing, lastEvent>>

(* ---------------- the asset loader ---------------- *)

\* The load of url finishes; a render that suspended on it is retried.
LoadComplete(url) ==
    /\ gltfCache[url] = "loading"
    /\ gltfCache' = [gltfCache EXCEPT ![url] = "loaded"]
    /\ r3fPending' = (r3fPending \/ suspendedOn = url)
    /\ fromEffect' = FALSE
    /\ UNCHANGED <<useHdrBackground, selectedVariant, enabledAnimations,
                   availableAnimations, updateQueue, cbChanged, enabledChanged, mounted,
                   modelEnabled, suspendedOn, discoveryPending, playbackPending, playing,
                   lastEvent>>

(* ---------------- Model, in the fiber root ---------------- *)

\* Pending passive effects are flushed before the root renders again.
CanRender == r3fPending /\ ~discoveryPending /\ ~playbackPending

\* useGLTF(url) throws while the asset is not cached: the Suspense fallback is
\* committed and the previously committed Model, if any, stays as it was.
ModelSuspend ==
    /\ CanRender
    /\ ~IsLoaded(activeUrl)
    /\ gltfCache' = Preload(gltfCache, activeUrl)
    /\ suspendedOn' = activeUrl
    /\ r3fPending' = FALSE
    /\ fromEffect' = FALSE
    /\ UNCHANGED <<useHdrBackground, selectedVariant, enabledAnimations,
                   availableAnimations, updateQueue, cbChanged, enabledChanged, mounted,
                   modelEnabled, discoveryPending, playbackPending, playing, lastEvent>>

\* The first effect runs on mount and when a dependency changed; names is
\* stable for a given asset, the callback prop is not.
DiscoveryDepsChanged(isMount) == isMount \/ cbChanged

\* The second effect runs on mount and when enabledAnimations is another object.
PlaybackDepsChanged(isMount) == isMount \/ enabledChanged

\* Model renders with the asset cached and commits.  key={activeUrl}: another
\* url unmounts the committed Model (its mixer stops) and mounts a new one.
ModelCommit ==
    /\ CanRender
    /\ IsLoaded(activeUrl)
    /\ mounted' = activeUrl
    /\ modelEnabled' = enabledAnimations
    /\ discoveryPending' = DiscoveryDepsChanged(mounted # activeUrl)
    /\ playbackPending' = PlaybackDepsChanged(mounted # activeUrl)
    /\ playing' = IF mounted # activeUrl THEN {} ELSE playing
    /\ cbChanged' = FALSE
    /\ enabledChanged' = FALSE
    /\ suspendedOn' = None
    /\ r3fPending' = FALSE
    /\ fromEffect' = FALSE
    /\ UNCHANGED <<useHdrBackground, selectedVariant, enabledAnimations,
                   availableAnimations, updateQueue, gltfCache, lastEvent>>

\* Model's first effect: report the names to the parent.
DiscoveryEffect(names, queue) ==
    IF Len(names) > 0 THEN Append(queue, names) ELSE queue

\* A playback effect without the stop branch.
PlaybackEffectNeverStopping(names, enabled, running) ==
    running \cup {n \in Range(names) : n \in enabled}

\* Model's second effect: play the enabled clips, stop the others.
PlaybackEffect(names, enabled, running) ==
    (running \cup {n \in Range(names) : n \in enabled})
        \ {n \in Range(names) : n \notin enabled}

\* The scheduled effects of the committed Model run, in declaration order.
FlushPassiveEffects ==
    /\ discoveryPending \/ playbackPending
    /\ updateQueue' = IF discoveryPending
                      THEN DiscoveryEffect(NamesOf(mounted), updateQueue)
                      ELSE updateQueue
    /\ playing' = IF playbackPending
                  THEN PlaybackEffect(NamesOf(mounted), modelEnabled, playing)
                  ELSE playing
    /\ discoveryPending' = FALSE
    /\ playbackPending' = FALSE
    /\ fromEffect' = FALSE
    /\ UNCHANGED <<useHdrBackground, selectedVariant, enabledAnimations,
                   availableAnimations, gltfCache, r3fPending, cbChanged, enabledChanged,
                   mounted, modelEnabled, suspendedOn, lastEvent>>

(* ---------------- specification ---------------- *)

Next ==
    \/ \E v \in ModelVariant : SelectVariant(v)
    \/ ToggleBackground
    \/ \E name \in AllNames, checked \in BOOLEAN : ToggleAnimation(name, checked)
    \/ ParentRender
    \/ \E url \in Urls : LoadComplete(url)
    \/ ModelSuspend
    \/ ModelCommit
    \/ FlushPassiveEffects

Spec == Init /\ [][Next]_vars

\* The scheduler runs every render and effect that is due.  User events and
\* the completion of a load (which may fail) are not forced.
FairSpec ==
    Spec /\ WF_vars(ParentRender) /\ WF_vars(ModelSuspend) /\ WF_vars(ModelCommit)
         /\ WF_vars(FlushPassiveEffects)

(* ---------------- properties ---------------- *)

\* Names reported by the asset of the currently selected variant.
CurrentNames == Range(NamesOf(activeUrl))

\* A step taken by the user.
UserStep ==
    \/ \E v \in ModelVariant : SelectVariant(v)
    \/ ToggleBackground
    \/ \E name \in AllNames, checked \in BOOLEAN : ToggleAnimation(name, checked)

\* C1: the two lists only ever hold names reported by the currently selected
\* variant; a report made for a variant that is no longer current changes nothing.
C1_NoStaleDiscovery ==
    /\ Range(availableAnimations) \subseteq CurrentNames
    /\ enabledAnimations \subseteq CurrentNames

\* C2: the step of selectVariant(id) makes id the current variant and leaves
\* both lists empty, whatever the state before.
C2_SelectClears ==
    [][selectedVariant' # selectedVariant
          => /\ lastEvent'.op = "selectVariant"
             /\ selectedVariant' = lastEvent'.name
             /\ availableAnimations' = <<>>
             /\ enabledAnimations' = {}]_vars

C2_Witness ==
    /\ lastEvent.op = "selectVariant"
    /\ lastEvent.ready /\ lastEvent.enabled # {}
    /\ selectedVariant = lastEvent.name
    /\ availableAnimations = <<>> /\ enabledAnimations = {}

\* C3: a report of a non-empty names list makes AvailableAnimationList equal to
\* names and EnabledAnimationSet equal to the set of all names.
C3_AutoEnableAll ==
    [][/\ (Len(updateQueue') > Len(updateQueue))
            => /\ updateQueue' = Append(updateQueue, NamesOf(mounted))
               /\ Len(NamesOf(mounted)) > 0
       /\ fromEffect'
            => /\ updateQueue # <<>>
               /\ availableAnimations' = updateQueue[Len(updateQueue)]
               /\ enabledAnimations' = Range(updateQueue[Len(updateQueue)])]_vars

\* A discovery was rendered after the user had switched a clip off.
C3_Witness ==
    /\ fromEffect
    /\ lastEvent.op = "toggleAnimation" /\ lastEvent.ready
    /\ lastEvent.name \in lastEvent.enabled
    /\ lastEvent.name \in enabledAnimations
    /\ updateQueue = <<>>
    /\ enabledAnimations = Range(availableAnimations)
    /\ Cardinality(enabledAnimations) > 1

\* C4: after toggleAnimation(name, off) in Ready, EnabledAnimationSet is the
\* prior set minus name and stays so until the next user event.
C4_ToggleOffPersists ==
    (lastEvent.op = "toggleAnimation" /\ lastEvent.ready
        /\ lastEvent.name \in CurrentNames
        /\ lastEvent.name \in lastEvent.enabled)
        => enabledAnimations = lastEvent.enabled \ {lastEvent.name}

\* C5: every enabled name is one of the available names.
C5_EnabledSubsetAvailable ==
    enabledAnimations \subseteq Range(availableAnimations)

\* C6: after a background toggle in Ready, and the renders and effects that
\* follow it, EnabledAnimationSet and AvailableAnimationList are what they were.
C6_BackgroundFrame ==
    (lastEvent.op = "toggleBackground" /\ lastEvent.ready)
        => /\ enabledAnimations = lastEvent.enabled
           /\ availableAnimations = NamesOf(activeUrl)

\* C7: toggling a name of a Ready state off and then on gives back the
\* EnabledAnimationSet from before the two toggles and leaves the list alone.
C7_ToggleOffOn ==
    [][(/\ lastEvent.op = "toggleAnimation" /\ lastEvent.ready
        /\ lastEvent.name \in lastEvent.enabled
        /\ lastEvent.name \notin enabledAnimations
        /\ lastEvent.name \in CheckboxNames
        /\ lastEvent' # lastEvent
        /\ lastEvent'.op = "toggleAnimation"
        /\ lastEvent'.name = lastEvent.name)
            => /\ enabledAnimations' = lastEvent.enabled
               /\ Range(availableAnimations') = Range(availableAnimations)
               /\ selectedVariant' = selectedVariant]_vars

\* A clip was switched on again while another one was enabled.
C7_Witness ==
    /\ lastEvent.op = "toggleAnimation"
    /\ lastEvent.name \in CheckboxNames
    /\ lastEvent.ready
    /\ lastEvent.name \notin lastEvent.enabled
    /\ lastEvent.enabled # {}
    /\ enabledAnimations = lastEvent.enabled \cup {lastEvent.name}
    /\ r3fPending /\ updateQueue = <<>>

\* C8: a toggle of a name that is not in AvailableAnimationList changes nothing.
C8_InvalidToggleInert ==
    [][(/\ lastEvent' # lastEvent
        /\ lastEvent'.op = "toggleAnimation"
        /\ lastEvent'.name \notin Range(availableAnimations))
            => UNCHANGED <<enabledAnimations, availableAnimations, selectedVariant,
                           useHdrBackground, updateQueue>>]_vars

\* A name was toggled that the non-empty list does not hold.
C8_Witness ==
    /\ lastEvent.op = "toggleAnimation"
    /\ availableAnimations # <<>>
    /\ enabledAnimations # {}
    /\ lastEvent.name \notin Range(availableAnimations)

\* C9: once the playback effect has run, a clip of the mounted asset plays
\* exactly when its name is in the enabled set Model was rendered with, and
\* that set is the parent's once the fiber root has rendered its last element.
C9_PlaybackReconciled ==
    /\ (mounted # None /\ ~playbackPending)
          => playing = {n \in Range(NamesOf(mounted)) : n \in modelEnabled}
    /\ (mounted = activeUrl /\ ~r3fPending) => modelEnabled = enabledAnimations

C9_Witness ==
    /\ mounted = activeUrl /\ ~r3fPending /\ ~playbackPending
    /\ playing # {} /\ playing # Range(NamesOf(mounted))
    /\ playing = enabledAnimations

\* Nothing is left to render and no effect is scheduled.
Quiescent ==
    updateQueue = <<>> /\ ~r3fPending /\ ~discoveryPending /\ ~playbackPending

\* The selected asset is mounted and has animation clips.
ReadyWithClips == mounted = activeUrl /\ Len(NamesOf(mounted)) > 0

\* C10: unless the user keeps acting, the renders and effects come to rest for
\* good, also after an asset with clips has been mounted.
C10_Quiescence ==
    []<><<UserStep>>_vars \/ <>[]Quiescent

====
